---------------------------- MODULE Spec2Model ----------------------------
(***************************************************************************)
(* Model of mcmc_io.c: the two CSV ingestion drivers (read_ili_csv and     *)
(* read_csv_double_vector), their field/record callbacks (cb1/cb2 and      *)
(* contacts_cb1/contacts_cb2), the typed converters                        *)
(* (parse_int_error_check / parse_double_error_check) and the growable     *)
(* arrays they fill.  The libcsv tokenizer is an external collaborator: it *)
(* is modelled by the events it delivers (a field event per field, a       *)
(* record event per record, the flush of csv_fini).                        *)
(*                                                                         *)
(* Texts are sequences of one-character strings.  Numbers that do not fit  *)
(* the checker's integers (a C long, a value above INT_MAX) are kept as    *)
(* digit sequences and compared as such, so no width is lost.              *)
(***************************************************************************)
EXTENDS Integers, Sequences, FiniteSets, TLC

\* ------------------------------------------------------------------------
\* Program constants
\* ------------------------------------------------------------------------
FILE_NUM_COLS == 4
reserve_size_ili == 53
reserve_size_col == 25
COL_NUM_COLS == 2
EXIT_SUCCESS == 0
EXIT_FAILURE == 1
ERANGE == 34
INT_MAX == 2147483647
INT_MIN == (-2147483647) - 1

\* |INT_MAX|, |INT_MIN|, |LONG_MAX|, |LONG_MIN| as digit sequences (LP64 long).
INT_MAX_MAG == <<"2","1","4","7","4","8","3","6","4","7">>
INT_MIN_MAG == <<"2","1","4","7","4","8","3","6","4","8">>
LONG_MAX_MAG == <<"9","2","2","3","3","7","2","0","3","6","8","5","4","7","7","5","8","0","7">>
LONG_MIN_MAG == <<"9","2","2","3","3","7","2","0","3","6","8","5","4","7","7","5","8","0","8">>

\* ------------------------------------------------------------------------
\* Characters
\* ------------------------------------------------------------------------
Digits == {"0","1","2","3","4","5","6","7","8","9"}
DigitVal == [c \in Digits |->
   CASE c = "0" -> 0 [] c = "1" -> 1 [] c = "2" -> 2 [] c = "3" -> 3
     [] c = "4" -> 4 [] c = "5" -> 5 [] c = "6" -> 6 [] c = "7" -> 7
     [] c = "8" -> 8 [] c = "9" -> 9]

\* isspace() of the C locale, as strtol/strtod use it to skip leading blanks.
IsSpaceChar(c) == c \in {" ", "\t", "\n", "\r"}

\* First index >= i of str that holds no white space (Len(str)+1 if none).
RECURSIVE SkipSpace(_, _)
SkipSpace(str, i) ==
  IF i <= Len(str) /\ IsSpaceChar(str[i]) THEN SkipSpace(str, i + 1) ELSE i

\* First index >= i of str that holds no decimal digit.
RECURSIVE SkipDigits(_, _)
SkipDigits(str, i) ==
  IF i <= Len(str) /\ str[i] \in Digits THEN SkipDigits(str, i + 1) ELSE i

\* A digit sequence without its leading zeros (<<>> is zero).
RECURSIVE StripZeros(_)
StripZeros(d) ==
  IF d # <<>> /\ d[1] = "0" THEN StripZeros(Tail(d)) ELSE d

\* Lexicographic a > b for digit sequences of equal length.
RECURSIVE LexGreater(_, _)
LexGreater(a, b) ==
  IF a = <<>> THEN FALSE
  ELSE IF DigitVal[a[1]] # DigitVal[b[1]] THEN DigitVal[a[1]] > DigitVal[b[1]]
  ELSE LexGreater(Tail(a), Tail(b))

\* a > b for magnitudes (digit sequences without leading zeros).
MagGreater(a, b) ==
  \/ Len(a) > Len(b)
  \/ Len(a) = Len(b) /\ LexGreater(a, b)

\* The integer of a magnitude known to fit an int; negative values are
\* accumulated downwards so that INT_MIN is reached without overflow.
RECURSIVE MagToInt(_, _, _)
MagToInt(neg, d, acc) ==
  IF d = <<>> THEN acc
  ELSE MagToInt(neg, Tail(d),
                IF neg THEN acc * 10 - DigitVal[d[1]] ELSE acc * 10 + DigitVal[d[1]])

\* ------------------------------------------------------------------------
\* strtol(str, &cursor, 10): skips white space, takes an optional sign and
\* the longest run of digits.  consumed = cursor - str (0 when no digit was
\* found); the value saturates at LONG_MAX / LONG_MIN with errno = ERANGE.
\* ------------------------------------------------------------------------
strtol_value(neg, mag, lim, consumed) ==
  IF MagGreater(mag, lim)
    THEN [consumed |-> consumed, neg |-> neg, mag |-> lim, erange |-> TRUE]
    ELSE [consumed |-> consumed, neg |-> neg, mag |-> mag, erange |-> FALSE]

\* j: index of the first digit; k: index after the digits.
strtol_digits(str, neg, j, k) ==
  IF k = j
    THEN [consumed |-> 0, neg |-> FALSE, mag |-> <<>>, erange |-> FALSE]
    ELSE strtol_value(neg, StripZeros(SubSeq(str, j, k - 1)),
                      IF neg THEN LONG_MIN_MAG ELSE LONG_MAX_MAG, k - 1)

strtol_sign(str, i) ==
  IF i <= Len(str) /\ str[i] \in {"+", "-"}
    THEN strtol_digits(str, str[i] = "-", i + 1, SkipDigits(str, i + 1))
    ELSE strtol_digits(str, FALSE, i, SkipDigits(str, i))

strtol(str) == strtol_sign(str, SkipSpace(str, 1))

\* tmp < INT_MIN || tmp > INT_MAX for the long strtol returned.
LongOutsideInt(r) ==
  IF r.neg THEN MagGreater(r.mag, INT_MIN_MAG) ELSE MagGreater(r.mag, INT_MAX_MAG)

\* ------------------------------------------------------------------------
\* parse_int_error_check(str, err_p, len) with the errno it finds and leaves.
\* errno is never cleared before strtol: the range test reads whatever it
\* holds.  *err_p is written only on failure.
\* ------------------------------------------------------------------------
parse_int_checks(r, err, len, eno1) ==
  IF r.consumed # len
    THEN [ret |-> 0, err |-> 1, errno |-> eno1]
  ELSE IF eno1 = ERANGE \/ LongOutsideInt(r)
    THEN [ret |-> 0, err |-> 2, errno |-> eno1]
  ELSE [ret |-> MagToInt(r.neg, r.mag, 0), err |-> err, errno |-> eno1]

parse_int_error_check(str, err, len, eno) ==
  parse_int_checks(strtol(str), err, len,
                   IF strtol(str).erange THEN ERANGE ELSE eno)

\* ------------------------------------------------------------------------
\* strtod(str, &cursor) on decimal notation: white space, optional sign,
\* digits with an optional fraction (at least one digit in all), and an
\* exponent only when "e" is followed by an optional sign and a digit.
\* The value is kept exactly as (sign, significant digits, power of ten).
\* ------------------------------------------------------------------------
RECURSIVE StripTrailingZeros(_)
StripTrailingZeros(d) ==
  IF d # <<>> /\ d[Len(d)] = "0" THEN StripTrailingZeros(SubSeq(d, 1, Len(d) - 1)) ELSE d

\* Largest and smallest decimal order of magnitude of a finite nonzero double.
DBL_MAX_10_ORDER == 309
DBL_MIN_10_ORDER == -323

\* The double of a digit string mant (no leading or trailing zero) times
\* 10^exp, with the range error strtod reports for it.
strtod_value(neg, mant, exp, consumed) ==
  IF mant = <<>>
    THEN [consumed |-> consumed, erange |-> FALSE,
          val |-> [neg |-> neg, mant |-> <<>>, exp |-> 0]]
  ELSE IF Len(mant) + exp > DBL_MAX_10_ORDER
    THEN [consumed |-> consumed, erange |-> TRUE,
          val |-> [neg |-> neg, mant |-> <<"i","n","f">>, exp |-> 0]]
  ELSE IF Len(mant) + exp < DBL_MIN_10_ORDER
    THEN [consumed |-> consumed, erange |-> TRUE,
          val |-> [neg |-> neg, mant |-> <<>>, exp |-> 0]]
  ELSE [consumed |-> consumed, erange |-> FALSE,
        val |-> [neg |-> neg, mant |-> mant, exp |-> exp]]

\* lead: the digits of the integer and fraction parts without leading zeros;
\* exp: the power of ten of its last digit.
strtod_digits(neg, lead, exp, consumed) ==
  strtod_value(neg, StripTrailingZeros(lead),
               exp + (Len(lead) - Len(StripTrailingZeros(lead))), consumed)

\* The exponent part at index m: "e", an optional sign, at least one digit.
ExpDigitsAt(str, m) ==
  IF m + 1 <= Len(str) /\ str[m + 1] \in {"+", "-"} THEN m + 2 ELSE m + 1

HasExp(str, m) ==
  /\ m <= Len(str) /\ str[m] \in {"e", "E"}
  /\ SkipDigits(str, ExpDigitsAt(str, m)) > ExpDigitsAt(str, m)

ExpAbs(emag) == IF Len(emag) > 4 THEN 9999 ELSE MagToInt(FALSE, emag, 0)

ExpValue(str, m) ==
  IF ~HasExp(str, m) THEN 0
  ELSE IF str[m + 1] = "-"
    THEN 0 - ExpAbs(StripZeros(SubSeq(str, ExpDigitsAt(str, m),
                                      SkipDigits(str, ExpDigitsAt(str, m)) - 1)))
    ELSE ExpAbs(StripZeros(SubSeq(str, ExpDigitsAt(str, m),
                                  SkipDigits(str, ExpDigitsAt(str, m)) - 1)))

ExpEnd(str, m) ==
  IF HasExp(str, m) THEN SkipDigits(str, ExpDigitsAt(str, m)) ELSE m

\* ich, fch: the digits before and after the point; m: the index after them.
strtod_parts(str, neg, ich, fch, m) ==
  IF Len(ich) + Len(fch) = 0
    THEN [consumed |-> 0, erange |-> FALSE,
          val |-> [neg |-> FALSE, mant |-> <<>>, exp |-> 0]]
    ELSE strtod_digits(neg, StripZeros(ich \o fch),
                       ExpValue(str, m) - Len(fch), ExpEnd(str, m) - 1)

\* j: index of the first digit; k: index after the integer digits.
strtod_point(str, neg, j, k, m) ==
  strtod_parts(str, neg, SubSeq(str, j, k - 1), SubSeq(str, k + 1, m - 1), m)

strtod_int(str, neg, j, k) ==
  strtod_point(str, neg, j, k,
               IF k <= Len(str) /\ str[k] = "." THEN SkipDigits(str, k + 1) ELSE k)

strtod_sign(str, i) ==
  IF i <= Len(str) /\ str[i] \in {"+", "-"}
    THEN strtod_int(str, str[i] = "-", i + 1, SkipDigits(str, i + 1))
    ELSE strtod_int(str, FALSE, i, SkipDigits(str, i))

strtod(str) == strtod_sign(str, SkipSpace(str, 1))

\* The double 0.0 that parse_double_error_check returns on failure.
ZeroDouble == [neg |-> FALSE, mant |-> <<>>, exp |-> 0]

\* parse_double_error_check(str, err_p, len) with the errno it finds and leaves.
parse_double_checks(r, err, len, eno1) ==
  IF r.consumed # len
    THEN [ret |-> ZeroDouble, err |-> 1, errno |-> eno1]
  ELSE IF eno1 = ERANGE
    THEN [ret |-> ZeroDouble, err |-> 2, errno |-> eno1]
  ELSE [ret |-> r.val, err |-> err, errno |-> eno1]

parse_double_error_check(str, err, len, eno) ==
  parse_double_checks(strtod(str), err, len,
                      IF strtod(str).erange THEN ERANGE ELSE eno)

\* ------------------------------------------------------------------------
\* Error descriptions: parse_errors[] / cb_err_str (0-based table in C).
\* ------------------------------------------------------------------------
PARSE_EINVALID == 4
parse_errors ==
  << "success",
     "could not convert string to int",
     "value is out of range for int",
     "line has too many fields",
     "previous line has not enough fields",
     "invalid status code" >>

cb_err_str(status) ==
  IF status >= PARSE_EINVALID \/ status < 0
    THEN parse_errors[PARSE_EINVALID + 1]
    ELSE parse_errors[status + 1]

PARSE_EINVALID_DOUBLE == 4
parse_errors_double ==
  << "success",
     "could not convert string to double",
     "value is out of range for double",
     "line has too many fields",
     "previous line has not enough fields",
     "invalid status code" >>

cb_err_str_double(status) ==
  IF status >= PARSE_EINVALID_DOUBLE \/ status < 0
    THEN parse_errors_double[PARSE_EINVALID_DOUBLE + 1]
    ELSE parse_errors_double[status + 1]

\* ------------------------------------------------------------------------
\* Heap blocks.  A pointer is NULL or a block of cells; a cell is <<>> while
\* its content is indeterminate and <<v>> once v was stored.
\* ------------------------------------------------------------------------
NULLP == [null |-> TRUE, cells |-> <<>>]
Indet == <<>>

\* malloc(n * sizeof elem): ok tells whether the allocator had the memory.
malloc(n, ok) ==
  IF ok THEN [null |-> FALSE, cells |-> [i \in 1..n |-> Indet]] ELSE NULLP

\* realloc(p, n * sizeof elem): the first min(old, n) cells are kept.  On
\* failure NULL is returned (and, as the callers overwrite p, the old block
\* is no longer reachable).
realloc(p, n, ok) ==
  IF ok
    THEN [null |-> FALSE,
          cells |-> [i \in 1..n |-> IF i <= Len(p.cells) THEN p.cells[i] ELSE Indet]]
    ELSE NULLP

\* Is p[idx] (0-based) inside allocated storage?
InBounds(p, idx) == ~p.null /\ idx >= 0 /\ idx < Len(p.cells)

\* p[idx] = v for an index inside the block.
Store(p, idx, v) == [p EXCEPT !.cells[idx + 1] = <<v>>]

\* ------------------------------------------------------------------------
\* Bounds of the model and the texts the inputs are drawn from
\* ------------------------------------------------------------------------
MaxRecords == 3
MaxFields == 5

T_empty == <<>>
T_idx == <<"i","d","x">>
T_0 == <<"0">>
T_1 == <<"1">>
T_2 == <<"2">>
T_100 == <<"1","0","0">>
T_2020 == <<"2","0","2","0">>
T_12a == <<"1","2","a">>
T_2p31 == <<"2","1","4","7","4","8","3","6","4","8">>
T_half == <<"0",".","5">>
T_1e999 == <<"1","e","9","9","9">>

\* The texts a field of record number records + 1, column col may hold: a
\* header of names or numbers, an index column, then per data column one or
\* two good values and the texts that are empty, not a number, or too large.
TextsAt(k, records, col) ==
  IF records = 0 THEN {T_idx, T_2020}
  ELSE IF col = 1 THEN {T_0}
  ELSE IF k = "ili" /\ col = 2 THEN {T_2020, T_empty, T_12a}
  ELSE IF k = "ili" /\ col = 3 THEN {T_1, T_2, T_2p31}
  ELSE IF k = "ili" /\ col = 4 THEN {T_100, T_empty, T_12a, T_2p31}
  ELSE IF k = "col" /\ col = 2 THEN {T_2, T_half, T_empty, T_12a, T_1e999}
  ELSE {T_empty, T_12a}

\* What an out-of-bounds store may do: stop the process, or land outside
\* the array and leave it as it was.
UBOutcomes == {"crash", "stray"}

\* ------------------------------------------------------------------------
\* Reference reading of a field text, independent of strtol/strtod
\* ------------------------------------------------------------------------
AllDigits(t) == \A i \in 1..Len(t) : t[i] \in Digits

\* [+-]?[0-9]+
IsDecimalText(t) ==
  LET sgn == t # <<>> /\ t[1] \in {"+", "-"}
      ds  == IF sgn THEN Tail(t) ELSE t
  IN ds # <<>> /\ AllDigits(ds)

\* [+-]?[0-9]+ with a value in [-2^31, 2^31 - 1]
IsInt32Text(t) ==
  /\ IsDecimalText(t)
  /\ ~MagGreater(StripZeros(IF t[1] \in {"+", "-"} THEN Tail(t) ELSE t),
                 IF t[1] = "-" THEN INT_MIN_MAG ELSE INT_MAX_MAG)

RefInt(t) ==
  LET sgn == t[1] \in {"+", "-"}
  IN MagToInt(t[1] = "-", StripZeros(IF sgn THEN Tail(t) ELSE t), 0)

\* [+-]?([0-9]+(\.[0-9]*)?|\.[0-9]+)(e[+-]?[0-9]+)? of a representable size
IsDoubleText(t) ==
  \E a \in 0..1 : \E b, c \in 0..Len(t) :
    LET sg == SubSeq(t, 1, a)
        ip == SubSeq(t, a + 1, b)
        fp_ == SubSeq(t, b + 1, c)
        ex == SubSeq(t, c + 1, Len(t))
        es == IF Len(ex) >= 2 /\ ex[2] \in {"+", "-"} THEN 2 ELSE 1
        ed == SubSeq(ex, es + 1, Len(ex))
    IN /\ a <= b /\ b <= c
       /\ (a = 1 => a <= Len(t) /\ t[1] \in {"+", "-"})
       /\ AllDigits(ip)
       /\ (fp_ = <<>> \/ (fp_[1] = "." /\ AllDigits(Tail(fp_))))
       /\ Len(ip) + (IF fp_ = <<>> THEN 0 ELSE Len(fp_) - 1) >= 1
       /\ (ex = <<>> \/ (ex[1] \in {"e", "E"} /\ ed # <<>> /\ AllDigits(ed)
                         /\ Len(StripZeros(ed)) <= 2))

\* Is the completed record a well-formed data record of schema k?
RowOK(k, r) ==
  IF k = "ili"
    THEN Len(r) >= FILE_NUM_COLS /\ \A c \in 2..FILE_NUM_COLS : IsInt32Text(r[c])
    ELSE Len(r) >= COL_NUM_COLS /\ IsDoubleText(r[COL_NUM_COLS])

\* Are the data columns of the completed record all present and converted
\* without error by the converter of schema k (errno clear)?
RowConverts(k, r) ==
  IF k = "ili"
    THEN /\ Len(r) >= FILE_NUM_COLS
         /\ \A c \in 2..FILE_NUM_COLS :
              parse_int_error_check(r[c], 0, Len(r[c]), 0).err = 0
    ELSE /\ Len(r) >= COL_NUM_COLS
         /\ parse_double_error_check(r[COL_NUM_COLS], 0, Len(r[COL_NUM_COLS]), 0).err = 0

\* The reference parse of a well-formed data record.
RefRow(k, r) ==
  IF k = "ili" THEN <<RefInt(r[2]), RefInt(r[3]), RefInt(r[4])>> ELSE <<r[2]>>

\* ------------------------------------------------------------------------
\* State
\* ------------------------------------------------------------------------
VARIABLES
  pc,          \* position of the driver: idle, fopen, fread, csv_parse, final,
               \* csv_fini, done (returned), crashed (stopped by a stray store)
  kind,        \* which entry point runs: "ili" (read_ili_csv), "col"
               \* (read_csv_double_vector), "none" before the call
  ret,         \* the value returned (-1 before the return)
  year, week, estInc, size,     \* ILIinput *data_p
  vec, vsize,                   \* double **vec_p, int *vsize_p
  capacity, curr_row, curr_col, err_status, err_field,   \* aux
  errno,       \* the C library's errno
  fp,          \* the FILE: unopened, open, closed
  ferr,        \* ferror(fp)
  pstatus,     \* parser.status of the tokenizer
  stderr,      \* the field/row diagnostics printed by the driver
  tok,         \* tokenizer: ROW_NOT_BEGUN, FIELD (a record is begun and its
               \* next field not yet delivered), ROW_END (last field delivered,
               \* record event due)
  rec,         \* texts of the fields delivered for the current record
  nrec,        \* records completed so far (header included)
  ref,         \* reference parse of the leading well-formed data records
  good,        \* every completed data record so far was well-formed
  nvalid,      \* leading data records whose data columns were all present
               \* and converted without error
  flushed,     \* csv_fini delivered a trailing unterminated record
  stray,       \* a store landed outside allocated storage
  oom,         \* an allocation of a nonzero size has failed
  conv         \* last converter application (converter specification only)

dataVars == <<year, week, estInc, size, vec, vsize>>
auxVars == <<capacity, curr_row, curr_col, err_status, err_field>>
ioVars == <<fp, ferr, pstatus, stderr>>
tokVars == <<tok, rec, nrec, ref, good, nvalid, flushed>>
vars == <<pc, kind, ret, dataVars, auxVars, errno, ioVars, tokVars, stray, oom,
          conv>>

NoConv == [fn |-> "none", str |-> <<>>, eno |-> 0, ret |-> <<>>, err |-> 0, errno |-> 0]

\* A process that has called neither entry point: main's "ILIinput data = {}",
\* "double *contacts = NULL", "int t = 0".
Init ==
  /\ pc = "idle" /\ kind = "none" /\ ret = -1
  /\ year = NULLP /\ week = NULLP /\ estInc = NULLP /\ size = 0
  /\ vec = NULLP /\ vsize = 0
  /\ capacity = 0 /\ curr_row = 0 /\ curr_col = 0 /\ err_status = 0
  /\ err_field = <<>>
  /\ errno = 0
  /\ fp = "unopened" /\ ferr = FALSE /\ pstatus = 0 /\ stderr = <<>>
  /\ tok = "ROW_NOT_BEGUN" /\ rec = <<>> /\ nrec = 0 /\ ref = <<>>
  /\ good = TRUE /\ nvalid = 0 /\ flushed = FALSE
  /\ stray = FALSE /\ oom = FALSE
  /\ conv = NoConv

\* ------------------------------------------------------------------------
\* alloc_ili_input / realloc_ili_input on the three arrays; oks[i] tells
\* whether the i-th allocation succeeds.  Both return 1 when any pointer is
\* NULL afterwards.
\* ------------------------------------------------------------------------
alloc_ili_input(reserve, oks) ==
  LET y == malloc(reserve, oks[1])
      w == malloc(reserve, oks[2])
      e == malloc(reserve, oks[3])
  IN [year |-> y, week |-> w, estInc |-> e, size |-> 0,
      rc |-> IF y.null \/ w.null \/ e.null THEN 1 ELSE 0]

realloc_ili_input(y0, w0, e0, new_capacity, oks) ==
  LET y == realloc(y0, new_capacity, oks[1])
      w == realloc(w0, new_capacity, oks[2])
      e == realloc(e0, new_capacity, oks[3])
  IN [year |-> y, week |-> w, estInc |-> e,
      rc |-> IF y.null \/ w.null \/ e.null THEN 1 ELSE 0]

\* The allocation outcomes explored: all succeed, one in the middle fails,
\* all fail.
AllocOutcomes ==
  {[i \in 1..3 |-> TRUE], [i \in 1..3 |-> i # 2], [i \in 1..3 |-> FALSE]}

\* The reallocation outcomes explored: all three succeed, or none does.
ReallocOutcomes == {[i \in 1..3 |-> TRUE], [i \in 1..3 |-> FALSE]}

\* ------------------------------------------------------------------------
\* Entry of read_ili_csv: aux set up, arrays reserved, parser initialised.
\* ------------------------------------------------------------------------
read_ili_csv_enter ==
  /\ pc = "idle"
  /\ \E oks \in AllocOutcomes :
       LET a == alloc_ili_input(reserve_size_ili, oks)
       IN /\ year' = a.year /\ week' = a.week /\ estInc' = a.estInc
          /\ size' = a.size
          /\ oom' = (a.rc # 0)
          /\ IF a.rc # 0
               THEN pc' = "done" /\ ret' = EXIT_FAILURE
               ELSE pc' = "fopen" /\ ret' = ret
  /\ kind' = "ili"
  /\ capacity' = reserve_size_ili
  /\ curr_row' = 1 /\ curr_col' = 1
  /\ err_status' = 0 /\ err_field' = <<>>
  /\ UNCHANGED <<vec, vsize, errno, ioVars, tokVars, stray, conv>>

\* Entry of read_csv_double_vector: *vsize_p is cleared only when the vector
\* was allocated.
read_csv_double_vector_enter ==
  /\ pc = "idle"
  /\ \E ok \in BOOLEAN :
       LET v == malloc(reserve_size_col, ok)
       IN /\ vec' = v
          /\ oom' = v.null
          /\ IF v.null
               THEN pc' = "done" /\ ret' = EXIT_FAILURE /\ vsize' = vsize
               ELSE pc' = "fopen" /\ ret' = ret /\ vsize' = 0
  /\ kind' = "col"
  /\ capacity' = reserve_size_col
  /\ curr_row' = 1 /\ curr_col' = 1
  /\ err_status' = 0 /\ err_field' = <<>>
  /\ UNCHANGED <<year, week, estInc, size, errno, ioVars, tokVars, stray, conv>>

\* fopen(fname, "rb"): on failure the function returns at once.
fopen ==
  /\ pc = "fopen"
  /\ \E ok \in BOOLEAN :
       IF ok THEN fp' = "open" /\ pc' = "fread" /\ ret' = ret
             ELSE fp' = fp /\ pc' = "done" /\ ret' = EXIT_FAILURE
  /\ UNCHANGED <<kind, dataVars, auxVars, errno, ferr, pstatus, stderr,
                 tokVars, stray, oom, conv>>

\* The loop condition fread(...) > 0: a chunk was read, or the stream is at
\* its end, or it failed.
fread ==
  /\ pc = "fread"
  /\ \E got \in {"chunk", "eof", "error"} :
       /\ pc' = IF got = "chunk" THEN "csv_parse" ELSE "final"
       /\ ferr' = (got = "error")
  /\ UNCHANGED <<kind, ret, dataVars, auxVars, errno, fp, pstatus, stderr,
                 tokVars, stray, oom, conv>>

\* ------------------------------------------------------------------------
\* The tokenizer (libcsv), by the events it delivers.  csv_parse scans the
\* chunk: it begins a record, delivers a field at each delimiter, and at a
\* line terminator delivers the last field and then the record event.
\* csv_fini delivers the pending field and record of an unterminated last
\* line.  The ghost variables rec, nrec, ref, good, flushed record the input.
\* ------------------------------------------------------------------------
csv_scan_to(limit) ==
  /\ pc = "csv_parse"
  /\ tok = "ROW_NOT_BEGUN"
  /\ nrec < limit
  /\ tok' = "FIELD"
  /\ rec' = <<>>
  /\ UNCHANGED <<pc, kind, ret, dataVars, auxVars, errno, ioVars, nrec, ref,
                 good, nvalid, flushed, stray, oom, conv>>

csv_scan == csv_scan_to(MaxRecords)

\* A field event with text s; last tells whether it ends the record.
TokField(s, last) ==
  /\ pc \in {"csv_parse", "csv_fini"}
  /\ tok = "FIELD"
  /\ s \in TextsAt(kind, nrec, Len(rec) + 1)
  /\ (pc = "csv_fini" => last)
  /\ (~last => Len(rec) + 1 < MaxFields)
  /\ tok' = IF last THEN "ROW_END" ELSE "FIELD"
  /\ rec' = Append(rec, s)
  /\ flushed' = (flushed \/ pc = "csv_fini")
  /\ UNCHANGED <<nrec, ref, good, nvalid>>

\* A record event.
TokRecord ==
  /\ pc \in {"csv_parse", "csv_fini"}
  /\ tok = "ROW_END"
  /\ tok' = "ROW_NOT_BEGUN"
  /\ nrec' = nrec + 1
  /\ ref' = IF nrec >= 1 /\ good /\ RowOK(kind, rec)
              THEN Append(ref, RefRow(kind, rec)) ELSE ref
  /\ good' = (good /\ (nrec >= 1 => RowOK(kind, rec)))
  /\ nvalid' = IF nrec >= 1 /\ nvalid = nrec - 1 /\ RowConverts(kind, rec)
                 THEN nvalid + 1 ELSE nvalid
  /\ UNCHANGED <<rec, flushed>>

\* ------------------------------------------------------------------------
\* cb1: the field callback of read_ili_csv.  The result names the new value
\* of everything it may write; crash tells that a store outside allocated
\* storage stopped the process.
\* ------------------------------------------------------------------------
cb1_cur ==
  [year |-> year, week |-> week, estInc |-> estInc,
   err_status |-> err_status, err_field |-> err_field,
   curr_col |-> curr_col, errno |-> errno, stray |-> stray, crash |-> FALSE]

\* The switch on curr_col and what follows it; r is what
\* parse_int_error_check gives for the field (used in columns 2 to 4 only).
cb1_switch(s, ubo, r) ==
  LET data == curr_col \in {2, 3, 4}
      arr  == IF curr_col = 2 THEN year
              ELSE IF curr_col = 3 THEN week ELSE estInc
      inb  == InBounds(arr, size)
      st   == IF data THEN r.err ELSE err_status
  IN IF data /\ ~inb /\ ubo = "crash"
       THEN [cb1_cur EXCEPT !.crash = TRUE, !.errno = r.errno, !.err_status = st]
       ELSE [year   |-> IF curr_col = 2 /\ inb THEN Store(year, size, r.ret) ELSE year,
             week   |-> IF curr_col = 3 /\ inb THEN Store(week, size, r.ret) ELSE week,
             estInc |-> IF curr_col = 4 /\ inb THEN Store(estInc, size, r.ret) ELSE estInc,
             err_status |-> st,
             err_field  |-> IF st # 0 THEN <<s>> ELSE err_field,
             curr_col   |-> IF st # 0 THEN curr_col ELSE curr_col + 1,
             errno      |-> IF data THEN r.errno ELSE errno,
             stray      |-> (stray \/ (data /\ ~inb)),
             crash      |-> FALSE]

\* Mutant: a field is converted although an error was recorded before.
cb1_not_sticky(s, ubo) ==
  IF curr_row = 1 THEN cb1_cur
  ELSE cb1_switch(s, ubo, parse_int_error_check(s, err_status, Len(s), errno))

\* Mutant: the column cursor advances past a field that failed conversion.
cb1_advance_on_error(s, ubo) ==
  IF curr_row = 1 THEN cb1_cur
  ELSE IF err_status # 0 THEN cb1_cur
  ELSE [cb1_switch(s, ubo, parse_int_error_check(s, err_status, Len(s), errno))
          EXCEPT !.curr_col = curr_col + 1]

\* Mutant: the first row is not skipped.
cb1_no_header_skip(s, ubo) ==
  IF err_status # 0 THEN cb1_cur
  ELSE cb1_switch(s, ubo, parse_int_error_check(s, err_status, Len(s), errno))

\* Mutant: the "line has too many fields" check of the default case is performed.
cb1_too_many_fields(s, ubo) ==
  IF curr_row = 1 THEN cb1_cur
  ELSE IF err_status # 0 THEN cb1_cur
  ELSE IF curr_col > FILE_NUM_COLS
    THEN [cb1_cur EXCEPT !.err_status = 3, !.err_field = <<s>>]
  ELSE cb1_switch(s, ubo, parse_int_error_check(s, err_status, Len(s), errno))

cb1_effect(s, ubo) ==
  IF curr_row = 1 THEN cb1_cur
  ELSE IF err_status # 0 THEN cb1_cur
  ELSE cb1_switch(s, ubo, parse_int_error_check(s, err_status, Len(s), errno))

cb1(s, last, ubo) ==
  /\ kind = "ili"
  /\ TokField(s, last)
  /\ LET e == cb1_effect(s, ubo)
     IN /\ year' = e.year /\ week' = e.week /\ estInc' = e.estInc
        /\ err_status' = e.err_status /\ err_field' = e.err_field
        /\ curr_col' = e.curr_col /\ errno' = e.errno /\ stray' = e.stray
        /\ pc' = IF e.crash THEN "crashed" ELSE pc
  /\ UNCHANGED <<kind, ret, size, vec, vsize, capacity, curr_row, ioVars, oom,
                 conv>>

\* ------------------------------------------------------------------------
\* cb2: the record callback of read_ili_csv.
\* ------------------------------------------------------------------------
\* Mutant: the capacity grows by a fixed increment.
grown_by_increment(cap) == cap + reserve_size_col

\* aux_p->capacity *= 2
grown(cap) == cap * 2

cb2_cur ==
  [year |-> year, week |-> week, estInc |-> estInc, size |-> size,
   capacity |-> capacity, curr_row |-> curr_row, curr_col |-> curr_col,
   err_status |-> err_status, err_field |-> err_field]

\* Mutant: the field count is checked on the header row too.
cb2_short_any_row ==
  curr_col - 1 >= 0 /\ curr_col - 1 < FILE_NUM_COLS

\* curr_col - 1 < FILE_NUM_COLS && curr_row > 1 (curr_col is a size_t: at 0
\* the difference wraps to a huge value).
cb2_short ==
  curr_col - 1 >= 0 /\ curr_col - 1 < FILE_NUM_COLS /\ curr_row > 1

\* cb2 from the check of the number of fields on.
cb2_update(oks) ==
  LET st == IF cb2_short THEN 4 ELSE err_status
      ef == IF cb2_short THEN << <<>> >> ELSE err_field
  IN IF curr_row = 1
       THEN [cb2_cur EXCEPT !.err_status = st, !.err_field = ef,
                            !.curr_col = 1, !.curr_row = curr_row + 1]
       ELSE
         LET grow == size + 1 >= capacity
             cap  == IF grow THEN grown(capacity) ELSE capacity
             ra   == realloc_ili_input(year, week, estInc, cap, oks)
         IN [year   |-> IF grow THEN ra.year ELSE year,
             week   |-> IF grow THEN ra.week ELSE week,
             estInc |-> IF grow THEN ra.estInc ELSE estInc,
             size |-> size + 1, capacity |-> cap,
             curr_row |-> curr_row + 1, curr_col |-> 1,
             err_status |-> st, err_field |-> ef]

\* Mutant: the header row is counted in size like a data row.
cb2_header_counted(oks) ==
  IF err_status # 0 THEN cb2_cur
  ELSE [cb2_update(oks) EXCEPT !.size = size + 1]

\* Mutant: the record callback does not stop on an earlier error.
cb2_not_sticky(oks) == cb2_update(oks)

cb2_effect(oks) ==
  IF err_status # 0 THEN cb2_cur ELSE cb2_update(oks)

\* Does the record callback, run now, meet a failed reallocation?
GrowthFails(sz, failed) ==
  err_status = 0 /\ curr_row # 1 /\ sz + 1 >= capacity /\ failed

cb2(oks) ==
  /\ kind = "ili"
  /\ TokRecord
  /\ LET e == cb2_effect(oks)
     IN /\ year' = e.year /\ week' = e.week /\ estInc' = e.estInc
        /\ size' = e.size /\ capacity' = e.capacity
        /\ curr_row' = e.curr_row /\ curr_col' = e.curr_col
        /\ err_status' = e.err_status /\ err_field' = e.err_field
  /\ oom' = (oom \/ GrowthFails(size, \E i \in 1..3 : ~oks[i]))
  /\ UNCHANGED <<pc, kind, ret, vec, vsize, errno, ioVars, stray, conv>>

\* ------------------------------------------------------------------------
\* contacts_cb1 / contacts_cb2: the callbacks of read_csv_double_vector.
\* ------------------------------------------------------------------------
contacts_cb1_effect(s, ubo) ==
  LET len == Len(s)
      cur == [vec |-> vec, err_status |-> err_status, err_field |-> err_field,
              curr_col |-> curr_col, errno |-> errno, stray |-> stray,
              crash |-> FALSE]
  IN IF curr_row = 1 THEN cur
     ELSE IF err_status # 0 THEN cur
     ELSE
       LET data == curr_col = 2
           r    == parse_double_error_check(s, err_status, len, errno)
           inb  == InBounds(vec, vsize)
           st   == IF data THEN r.err ELSE err_status
       IN IF data /\ ~inb /\ ubo = "crash"
            THEN [cur EXCEPT !.crash = TRUE, !.errno = r.errno, !.err_status = st]
            ELSE [vec |-> IF data /\ inb THEN Store(vec, vsize, r.ret) ELSE vec,
                  err_status |-> st,
                  err_field  |-> IF st # 0 THEN <<s>> ELSE err_field,
                  curr_col   |-> IF st # 0 THEN curr_col ELSE curr_col + 1,
                  errno      |-> IF data THEN r.errno ELSE errno,
                  stray      |-> (stray \/ (data /\ ~inb)),
                  crash      |-> FALSE]

contacts_cb1(s, last, ubo) ==
  /\ kind = "col"
  /\ TokField(s, last)
  /\ LET e == contacts_cb1_effect(s, ubo)
     IN /\ vec' = e.vec
        /\ err_status' = e.err_status /\ err_field' = e.err_field
        /\ curr_col' = e.curr_col /\ errno' = e.errno /\ stray' = e.stray
        /\ pc' = IF e.crash THEN "crashed" ELSE pc
  /\ UNCHANGED <<kind, ret, year, week, estInc, size, vsize, capacity,
                 curr_row, ioVars, oom, conv>>

contacts_cb2_effect(ok) ==
  LET cur == [vec |-> vec, vsize |-> vsize, capacity |-> capacity,
              curr_row |-> curr_row, curr_col |-> curr_col,
              err_status |-> err_status, err_field |-> err_field]
  IN IF err_status # 0 THEN cur
     ELSE
       LET nf    == curr_col - 1
           short == nf >= 0 /\ nf < COL_NUM_COLS /\ curr_row > 1
           st    == IF short THEN 4 ELSE err_status
           ef    == IF short THEN << <<>> >> ELSE err_field
       IN IF curr_row = 1
            THEN [cur EXCEPT !.err_status = st, !.err_field = ef,
                             !.curr_col = 1, !.curr_row = curr_row + 1]
            ELSE
              LET sz   == vsize + 1
                  grow == sz >= capacity
                  cap  == IF grow THEN grown(capacity) ELSE capacity
              IN [vec |-> IF grow THEN realloc(vec, cap, ok) ELSE vec,
                  vsize |-> sz, capacity |-> cap,
                  curr_row |-> curr_row + 1, curr_col |-> 1,
                  err_status |-> st, err_field |-> ef]

contacts_cb2(ok) ==
  /\ kind = "col"
  /\ TokRecord
  /\ LET e == contacts_cb2_effect(ok)
     IN /\ vec' = e.vec /\ vsize' = e.vsize /\ capacity' = e.capacity
        /\ curr_row' = e.curr_row /\ curr_col' = e.curr_col
        /\ err_status' = e.err_status /\ err_field' = e.err_field
  /\ oom' = (oom \/ GrowthFails(vsize, ~ok))
  /\ UNCHANGED <<pc, kind, ret, year, week, estInc, size, errno, ioVars,
                 stray, conv>>

\* ------------------------------------------------------------------------
\* The rest of the chunk loop
\* ------------------------------------------------------------------------
\* The message the driver prints for an error of the tokenizer.
TokenizerDiagnostic ==
  [col |-> 0, field |-> <<>>, row |-> 0, msg |-> "Error while parsing file"]

\* csv_parse stops with an error of its own (its return differs from
\* bytes_read): the driver prints the tokenizer's message and leaves the
\* loop, with parser.status set, before it looks at aux.err_status.
csv_parse_error ==
  /\ pc = "csv_parse"
  /\ tok = "FIELD"
  /\ pstatus' = 2
  /\ stderr' = Append(stderr, TokenizerDiagnostic)
  /\ pc' = "final"
  /\ UNCHANGED <<kind, ret, dataVars, auxVars, errno, fp, ferr,
                 tokVars, stray, oom, conv>>

\* The diagnostic the driver prints for a callback error.
Diagnostic ==
  IF kind = "ili"
    THEN [col |-> curr_col, field |-> err_field, row |-> curr_row,
          msg |-> cb_err_str(err_status)]
    ELSE [col |-> 0, field |-> err_field, row |-> curr_row,
          msg |-> cb_err_str_double(err_status)]

\* Mutant: the loop is not left after the diagnostic of a callback error.
csv_parse_return_no_break ==
  /\ pc = "csv_parse"
  /\ tok # "ROW_END"
  /\ stderr' = IF err_status # 0 THEN Append(stderr, Diagnostic) ELSE stderr
  /\ pc' = "fread"
  /\ UNCHANGED <<kind, ret, dataVars, auxVars, errno, fp, ferr, pstatus,
                 tokVars, stray, oom, conv>>

\* csv_parse returns having consumed the chunk; the driver then looks at
\* aux.err_status: nonzero prints the diagnostic and leaves the loop.
csv_parse_return ==
  /\ pc = "csv_parse"
  /\ tok # "ROW_END"
  /\ IF err_status # 0
       THEN stderr' = Append(stderr, Diagnostic) /\ pc' = "final"
       ELSE stderr' = stderr /\ pc' = "fread"
  /\ UNCHANGED <<kind, ret, dataVars, auxVars, errno, fp, ferr, pstatus,
                 tokVars, stray, oom, conv>>

\* fclose(fp): an open stream is closed; closing a stream that is not
\* open is an error of the caller, recorded as "closed_twice".
fclose_missing(f) == f

fclose(f) == IF f = "open" THEN "closed" ELSE "closed_twice"

\* ------------------------------------------------------------------------
\* After the loop: shrink to fit (aux.capacity is left as it was), then
\* either the failure return, or fclose and on to csv_fini.
\* ------------------------------------------------------------------------
read_ili_csv_final(oks) ==
  /\ pc = "final" /\ kind = "ili"
  /\ LET ra == realloc_ili_input(year, week, estInc, size, oks)
     IN IF capacity > size
          THEN year' = ra.year /\ week' = ra.week /\ estInc' = ra.estInc
          ELSE UNCHANGED <<year, week, estInc>>
  /\ fp' = fclose(fp)
  /\ IF ferr \/ err_status # 0 \/ pstatus # 0
       THEN pc' = "done" /\ ret' = EXIT_FAILURE
       ELSE pc' = "csv_fini" /\ ret' = ret
  /\ oom' = (oom \/ (capacity > size /\ size > 0 /\ \E i \in 1..3 : ~oks[i]))
  /\ UNCHANGED <<kind, size, vec, vsize, auxVars, errno, ferr, pstatus,
                 stderr, tokVars, stray, conv>>

read_csv_double_vector_final(ok) ==
  /\ pc = "final" /\ kind = "col"
  /\ vec' = IF capacity > vsize THEN realloc(vec, vsize, ok) ELSE vec
  /\ fp' = fclose(fp)
  /\ IF ferr \/ err_status # 0 \/ pstatus # 0
       THEN pc' = "done" /\ ret' = EXIT_FAILURE
       ELSE pc' = "csv_fini" /\ ret' = ret
  /\ oom' = (oom \/ (capacity > vsize /\ vsize > 0 /\ ~ok))
  /\ UNCHANGED <<kind, year, week, estInc, size, vsize, auxVars, errno, ferr,
                 pstatus, stderr, tokVars, stray, conv>>

\* csv_fini has flushed what was pending; csv_free; return EXIT_SUCCESS.
csv_fini_return ==
  /\ pc = "csv_fini"
  /\ tok = "ROW_NOT_BEGUN"
  /\ pc' = "done"
  /\ ret' = EXIT_SUCCESS
  /\ UNCHANGED <<kind, dataVars, auxVars, errno, ioVars, tokVars, stray, oom, conv>>

\* ------------------------------------------------------------------------
\* The caller after a return.  free_ili_input releases the three arrays
\* (free(NULL) does nothing), clears the pointers and the size; released
\* counts the blocks given back to the allocator.
\* ------------------------------------------------------------------------
free(p) == [ptr |-> p, released |-> IF p.null THEN 0 ELSE 1]

\* Mutant: the pointers are not cleared after free.
free_ili_input_dangling ==
  [year |-> free(year).ptr, week |-> free(week).ptr,
   estInc |-> free(estInc).ptr, size |-> 0,
   released |-> free(year).released + free(week).released
                  + free(estInc).released]

free_ili_input_effect ==
  [year |-> NULLP, week |-> NULLP, estInc |-> NULLP, size |-> 0,
   released |-> free(year).released + free(week).released
                  + free(estInc).released]

\* The caller frees the dataset, a first time and then once again.
free_ili_input ==
  /\ pc \in {"done", "freed"}
  /\ LET e == free_ili_input_effect
     IN /\ year' = e.year /\ week' = e.week /\ estInc' = e.estInc
        /\ size' = e.size
  /\ pc' = IF pc = "done" THEN "freed" ELSE "freed_again"
  /\ UNCHANGED <<kind, ret, vec, vsize, auxVars, errno, ioVars, tokVars,
                 stray, oom, conv>>

\* The process goes on to another ingestion from a caller with a fresh
\* dataset ("ILIinput data = {}", "contacts = NULL", "t = 0"); the locals
\* of the call that returned are gone, errno is the process's and stays.
next_call ==
  /\ pc \in {"done", "freed", "freed_again"}
  /\ pc' = "idle" /\ kind' = "none" /\ ret' = -1
  /\ year' = NULLP /\ week' = NULLP /\ estInc' = NULLP /\ size' = 0
  /\ vec' = NULLP /\ vsize' = 0
  /\ capacity' = 0 /\ curr_row' = 0 /\ curr_col' = 0 /\ err_status' = 0
  /\ err_field' = <<>>
  /\ fp' = "unopened" /\ ferr' = FALSE /\ pstatus' = 0 /\ stderr' = <<>>
  /\ tok' = "ROW_NOT_BEGUN" /\ rec' = <<>> /\ nrec' = 0 /\ ref' = <<>>
  /\ good' = TRUE /\ nvalid' = 0 /\ flushed' = FALSE
  /\ stray' = FALSE /\ oom' = FALSE
  /\ UNCHANGED <<errno, conv>>

\* ------------------------------------------------------------------------
\* Specification of a process that ingests files, one call after another
\* ------------------------------------------------------------------------
Next ==
  \/ read_ili_csv_enter
  \/ read_csv_double_vector_enter
  \/ fopen
  \/ fread
  \/ csv_scan
  \/ \E s \in TextsAt(kind, nrec, Len(rec) + 1), last \in BOOLEAN, ubo \in UBOutcomes :
       cb1(s, last, ubo)
  \/ \E oks \in ReallocOutcomes : cb2(oks)
  \/ \E s \in TextsAt(kind, nrec, Len(rec) + 1), last \in BOOLEAN, ubo \in UBOutcomes :
       contacts_cb1(s, last, ubo)
  \/ \E ok \in BOOLEAN : contacts_cb2(ok)
  \/ csv_parse_error
  \/ csv_parse_return
  \/ \E oks \in ReallocOutcomes : read_ili_csv_final(oks)
  \/ \E ok \in BOOLEAN : read_csv_double_vector_final(ok)
  \/ csv_fini_return
  \/ free_ili_input
  \/ next_call

Spec == Init /\ [][Next]_vars

\* The same process, run fairly on finite files: a step that can be taken
\* is taken in the end, and fread does not return chunks for ever: while
\* the loop keeps coming back to it, it reports the end of the stream (or
\* an error) in the end.
EndOfStream == fread /\ pc' = "final"

SpecFair == Init /\ [][Next]_vars /\ WF_vars(Next) /\ SF_vars(EndOfStream)

\* ------------------------------------------------------------------------
\* Specification of the ingestion of long files: up to MaxLongRecords
\* records, every one of them well-formed and of the schema's width, so
\* that the reserve is used up and the arrays grow.  The file opens and
\* reads without error; an allocation may fail at the reservation and at
\* each growth; the last record may lack its line terminator.
\* ------------------------------------------------------------------------
MaxLongRecords == 108

LongWidth == IF kind = "ili" THEN FILE_NUM_COLS ELSE COL_NUM_COLS

LongText ==
  IF nrec = 0 THEN T_idx
  ELSE IF Len(rec) = 0 THEN T_0
  ELSE IF kind = "col" THEN T_2
  ELSE IF Len(rec) = 1 THEN T_2020
  ELSE IF Len(rec) = 2 THEN T_1
  ELSE T_100

LongLast == Len(rec) + 1 = LongWidth

AllOk == [i \in 1..3 |-> TRUE]

NextGrow ==
  \/ read_ili_csv_enter
  \/ read_csv_double_vector_enter
  \/ fopen /\ fp' = "open"
  \/ fread /\ ~ferr'
  \/ csv_scan_to(MaxLongRecords)
  \/ \E ubo \in UBOutcomes : cb1(LongText, LongLast, ubo)
  \/ \E oks \in ReallocOutcomes : cb2(oks)
  \/ \E ubo \in UBOutcomes : contacts_cb1(LongText, LongLast, ubo)
  \/ \E ok \in BOOLEAN : contacts_cb2(ok)
  \/ csv_parse_return
  \/ read_ili_csv_final(AllOk)
  \/ read_csv_double_vector_final(TRUE)
  \/ csv_fini_return

SpecGrow == Init /\ [][NextGrow]_vars

\* ------------------------------------------------------------------------
\* Specification of the converters alone: each step applies one converter
\* to a text of ConvTexts with errno clear or left at ERANGE by an earlier
\* library call, and records the application in conv.
\* ------------------------------------------------------------------------
MaxLen == 3
ConvAlphabet == {"-", "0", "7", "a", ".", "e"}

T_intmax == INT_MAX_MAG
T_intmin == <<"-">> \o INT_MIN_MAG
T_below == <<"-","2","1","4","7","4","8","3","6","4","9">>
T_longover == <<"9","9","9","9","9","9","9","9","9","9","9","9","9","9","9","9","9","9","9","9">>

ConvTexts ==
  UNION {[1..n -> ConvAlphabet] : n \in 0..MaxLen}
    \cup {T_12a, T_2p31, T_intmax, T_intmin, T_below, T_longover, T_1e999}

apply_parse_int_error_check(str, eno) ==
  /\ pc = "idle" /\ conv.fn = "none"
  /\ LET r == parse_int_error_check(str, 0, Len(str), eno)
     IN conv' = [fn |-> "int", str |-> str, eno |-> eno,
                 ret |-> <<r.ret>>, err |-> r.err, errno |-> r.errno]
  /\ UNCHANGED <<pc, kind, ret, dataVars, auxVars, errno, ioVars, tokVars,
                 stray, oom>>

apply_parse_double_error_check(str, eno) ==
  /\ pc = "idle" /\ conv.fn = "none"
  /\ LET r == parse_double_error_check(str, 0, Len(str), eno)
     IN conv' = [fn |-> "double", str |-> str, eno |-> eno,
                 ret |-> <<r.ret>>, err |-> r.err, errno |-> r.errno]
  /\ UNCHANGED <<pc, kind, ret, dataVars, auxVars, errno, ioVars, tokVars,
                 stray, oom>>

NextConv ==
  \/ \E str \in ConvTexts, eno \in {0, ERANGE} : apply_parse_int_error_check(str, eno)
  \/ \E str \in ConvTexts, eno \in {0, ERANGE} : apply_parse_double_error_check(str, eno)

SpecConv == Init /\ [][NextConv]_vars

\* ------------------------------------------------------------------------
\* Specification of the error descriptions alone: each step asks one of
\* the two functions for the description of a status, defined or not.
\* ------------------------------------------------------------------------
MaxStatus == 30

apply_cb_err_str(status) ==
  /\ pc = "idle" /\ conv.fn = "none"
  /\ conv' = [fn |-> "cb_err_str", status |-> status, msg |-> cb_err_str(status)]
  /\ UNCHANGED <<pc, kind, ret, dataVars, auxVars, errno, ioVars, tokVars,
                 stray, oom>>

apply_cb_err_str_double(status) ==
  /\ pc = "idle" /\ conv.fn = "none"
  /\ conv' = [fn |-> "cb_err_str_double", status |-> status,
              msg |-> cb_err_str_double(status)]
  /\ UNCHANGED <<pc, kind, ret, dataVars, auxVars, errno, ioVars, tokVars,
                 stray, oom>>

NextStr ==
  \/ \E status \in (-MaxStatus)..MaxStatus : apply_cb_err_str(status)
  \/ \E status \in (-MaxStatus)..MaxStatus : apply_cb_err_str_double(status)

SpecStr == Init /\ [][NextStr]_vars

\* ========================================================================
\* Properties
\* ========================================================================
CurSize == IF kind = "ili" THEN size ELSE vsize

\* The call was made, the file was opened, and neither the stream, nor the
\* tokenizer, nor the allocator failed.
Opened == fp # "unopened"
NoEnvFailure == Opened /\ ~ferr /\ pstatus = 0 /\ ~oom

\* The call is over: it returned, or a stray store stopped the process.
Terminal == pc \in {"done", "crashed"}

\* Row i (1-based) of the three arrays holds the values of row.
RowStored(i, row) ==
  /\ InBounds(year, i - 1) /\ year.cells[i] = <<row[1]>>
  /\ InBounds(week, i - 1) /\ week.cells[i] = <<row[2]>>
  /\ InBounds(estInc, i - 1) /\ estInc.cells[i] = <<row[3]>>

\* The input read is a header and well-formed data records only.
InputWellFormed ==
  /\ nrec >= 1 /\ good
  /\ \/ tok = "ROW_NOT_BEGUN"
     \/ tok = "ROW_END" /\ RowOK(kind, rec)

\* C1: for every well-formed fixed-schema input, terminated or not by a line
\* terminator, read_ili_csv returns success with size = N and year, week,
\* estInc holding columns 2, 3, 4 of the N data records in file order.
C1_WellFormedParsed ==
  (kind = "ili" /\ Terminal /\ NoEnvFailure /\ InputWellFormed)
    => /\ pc = "done" /\ ret = EXIT_SUCCESS
       /\ size = Len(ref) /\ size = nrec - 1
       /\ \A i \in 1..Len(ref) : RowStored(i, ref[i])

\* C2: when the call returns with a validation error, size does not exceed
\* the number of data rows fully validated before the error; the row that
\* caused the error is not counted.
C2_SizeWithinValidated ==
  (pc = "done" /\ Opened /\ err_status # 0) => CurSize <= nvalid

\* C3: if some data record of the input fails validation (a data column
\* fails conversion or is missing), the call returns failure, also when the
\* record is the unterminated last one delivered by csv_fini.
C3_ErrorSurfaced ==
  (pc = "done" /\ Opened /\ nrec >= 1 /\ nvalid < nrec - 1) => ret = EXIT_FAILURE

\* C4: at every return of read_ili_csv after the file was opened, the
\* allocated lengths of year, week and estInc all equal size.
C4_ShrinkToFit ==
  (pc = "done" /\ kind = "ili" /\ Opened /\ ~oom)
    => /\ Len(year.cells) = size
       /\ Len(week.cells) = size
       /\ Len(estInc.cells) = size

\* C5: an empty field given to the integer or the floating-point converter
\* yields InvalidFormat (error 1); it is never accepted as a value.
C5_EmptyIsInvalid ==
  (conv.fn # "none" /\ conv.str = <<>>) => conv.err = 1

\* C6: the integer converter accepts a field exactly when the whole text is
\* a decimal integer in [-2^31, 2^31 - 1], then returning its value; text
\* that is not wholly a decimal integer yields error 1, a decimal integer
\* outside the range yields error 2.
C6_IntAcceptedIffInt32 ==
  (conv.fn = "int" /\ conv.eno = 0)
    => /\ (conv.err = 0) = IsInt32Text(conv.str)
       /\ (conv.err = 0 => conv.ret = <<RefInt(conv.str)>>)
       /\ (conv.err = 1) = ~IsDecimalText(conv.str)
       /\ (conv.err = 2) = (IsDecimalText(conv.str) /\ ~IsInt32Text(conv.str))

\* The part of C6 that the code meets: the same for every text but the empty one.
C6_NonEmptyIntAcceptedIffInt32 ==
  (conv.fn = "int" /\ conv.eno = 0 /\ conv.str # <<>>)
    => /\ (conv.err = 0) = IsInt32Text(conv.str)
       /\ (conv.err = 0 => conv.ret = <<RefInt(conv.str)>>)
       /\ (conv.err = 1) = ~IsDecimalText(conv.str)
       /\ (conv.err = 2) = (IsDecimalText(conv.str) /\ ~IsInt32Text(conv.str))

\* A field event and a record event, as steps.
FieldEvent ==
  pc \in {"csv_parse", "csv_fini"} /\ tok = "FIELD" /\ Len(rec') = Len(rec) + 1
RecordEvent ==
  pc \in {"csv_parse", "csv_fini"} /\ tok = "ROW_END" /\ tok' = "ROW_NOT_BEGUN"

\* No cell of any array has been written.
NothingStored ==
  /\ \A i \in 1..Len(year.cells) : year.cells[i] = Indet
  /\ \A i \in 1..Len(week.cells) : week.cells[i] = Indet
  /\ \A i \in 1..Len(estInc.cells) : estInc.cells[i] = Indet
  /\ \A i \in 1..Len(vec.cells) : vec.cells[i] = Indet

\* Once InsufficientFields is recorded, field and record events change
\* neither size, nor the arrays, nor the cursor, nor the error.
StickyAfterShort ==
  (err_status = 4 /\ (FieldEvent \/ RecordEvent))
    => UNCHANGED <<size, year, week, estInc, curr_row, curr_col, err_status,
                   err_field>>

\* C7 as stated: every data record of the fixed schema that ends with fewer
\* than 4 fields sets err_status to 4 with an empty offending-field text,
\* and nothing after it is processed.
C7_ShortRecordAlways4 ==
  [][ /\ (RecordEvent /\ kind = "ili" /\ nrec >= 1 /\ nvalid = nrec - 1
            /\ Len(rec) < FILE_NUM_COLS)
          => (err_status' = 4 /\ err_field' = << <<>> >>)
      /\ StickyAfterShort ]_vars

\* C7 as amended: a data record of the fixed schema that reaches its record
\* event with no error recorded and fewer than 4 fields sets err_status to
\* 4 with an empty offending-field text, and nothing after it is processed
\* (a record one of whose fields failed conversion keeps that error).
C7_ShortRecordSets4 ==
  [][ /\ (RecordEvent /\ kind = "ili" /\ nrec >= 1 /\ err_status = 0
            /\ Len(rec) < FILE_NUM_COLS)
          => (err_status' = 4 /\ err_field' = << <<>> >>)
      /\ StickyAfterShort ]_vars

\* Witness of C7: InsufficientFields was recorded for the first data record
\* and a whole further record has been delivered since.
C7_Witness ==
  /\ kind = "ili" /\ err_status = 4 /\ err_field = << <<>> >>
  /\ nrec = 3 /\ tok = "ROW_NOT_BEGUN" /\ curr_row = 3 /\ Len(rec) >= FILE_NUM_COLS

\* C8: in a data record, a field in a column beyond the schema width changes
\* neither the arrays, nor size, nor the error; and a record with more than
\* 4 fields whose columns 2 to 4 are valid (and converted: no error is
\* recorded, or the range-error indicator was clear) is committed with the
\* values of those columns, as a record of 4 fields is.
C8_ExtraColumnsIgnored ==
  [][ /\ (FieldEvent /\ kind = "ili" /\ nrec >= 1 /\ Len(rec) >= FILE_NUM_COLS)
          => UNCHANGED <<year, week, estInc, size, err_status, err_field>>
      /\ (RecordEvent /\ kind = "ili" /\ pc = "csv_parse" /\ nrec >= 1
            /\ Len(rec) > FILE_NUM_COLS /\ RowOK("ili", rec)
            /\ (err_status = 0 \/ (good /\ errno = 0)))
          => /\ size' = size + 1 /\ err_status' = 0
             /\ RowStored(size, RefRow("ili", rec))' ]_vars

\* Witness of C8: a data record whose fifth field is not a number was committed.
C8_Witness ==
  /\ kind = "ili" /\ pc = "csv_parse" /\ tok = "ROW_NOT_BEGUN" /\ nrec = 2
  /\ Len(rec) = 5 /\ rec[5] = T_12a /\ good /\ size = 1 /\ err_status = 0

\* C9: the first record is the header whatever it holds: while it is read
\* nothing is converted or stored, no error is set and size stays 0; after
\* its record event curr_row = 2 and curr_col = 1; so R records read
\* without error (as R well-formed records are when the range-error
\* indicator is clear) give size = R - 1 until the dataset is freed.
C9_HeaderSkipped ==
  /\ (kind # "none" /\ nrec = 0)
       => /\ err_status = 0 /\ CurSize = 0 /\ NothingStored
          /\ curr_row = 1 /\ curr_col = 1
  /\ (kind # "none" /\ nrec = 1 /\ tok = "ROW_NOT_BEGUN")
       => /\ err_status = 0 /\ CurSize = 0 /\ NothingStored
          /\ curr_row = 2 /\ curr_col = 1
  /\ (kind # "none" /\ pc \notin {"freed", "freed_again"} /\ nrec >= 1
        /\ tok = "ROW_NOT_BEGUN" /\ (err_status = 0 \/ (good /\ errno = 0)))
       => CurSize = nrec - 1

\* Witness of C9: a header of two fields, the second not a number, has
\* been read.
C9_Witness ==
  /\ kind = "ili" /\ nrec = 1 /\ tok = "ROW_NOT_BEGUN"
  /\ Len(rec) = 2 /\ rec[2] = T_idx /\ curr_row = 2

\* C10: an input that is empty or holds only the header record makes both
\* entry points return success with size 0 and no error.
C10_EmptyInputSucceeds ==
  (pc = "done" /\ NoEnvFailure /\ nrec <= 1 /\ tok = "ROW_NOT_BEGUN")
    => (ret = EXIT_SUCCESS /\ CurSize = 0 /\ err_status = 0)

\* Witness of C10: a header-only input was read to its end.
C10_Witness ==
  /\ pc = "done" /\ NoEnvFailure /\ nrec = 1 /\ tok = "ROW_NOT_BEGUN"
  /\ ret = EXIT_SUCCESS /\ kind = "ili"

\* C11: the description of a status is that of its code for the codes 0
\* to 4 and "invalid status code" for every other status, negative or
\* greater than 4, in both mappings.
C11_DescriptionTotal ==
  (conv.fn \in {"cb_err_str", "cb_err_str_double"})
    => conv.msg =
         IF conv.status \in 0..4
           THEN (IF conv.fn = "cb_err_str" THEN parse_errors
                 ELSE parse_errors_double)[conv.status + 1]
           ELSE "invalid status code"

\* C12: an allocation failure is fatal: a call in which the reservation or
\* a growth failed returns failure, and after a failed growth (the only
\* failure there is while a chunk is fed) no field event writes into an
\* array, inside or outside it, and no record event commits a record.
C12_AllocationFailureFatal ==
  [][ /\ (pc' = "done" /\ oom') => ret' = EXIT_FAILURE
      /\ (oom /\ pc = "csv_parse" /\ FieldEvent)
           => (UNCHANGED <<year, week, estInc, vec>> /\ ~stray' /\ pc' # "crashed")
      /\ (oom /\ pc = "csv_parse" /\ RecordEvent)
           => UNCHANGED <<size, vsize>> ]_vars

\* C13: the outcome of an ingestion depends on the file only: whatever the
\* process has ingested before, a call on a well-formed file returns
\* success with size = N and the arrays holding the file's columns.  Stated
\* for files whose last record ends with a line terminator, for which the
\* first call of a process does so.
C13_OutcomeIndependentOfHistory ==
  (Terminal /\ NoEnvFailure /\ InputWellFormed /\ ~flushed)
    => /\ pc = "done" /\ ret = EXIT_SUCCESS
       /\ CurSize = Len(ref) /\ CurSize = nrec - 1
       /\ kind = "ili" => \A i \in 1..Len(ref) : RowStored(i, ref[i])

\* C14: once the file was opened, every return of read_ili_csv and of
\* read_csv_double_vector leaves the stream closed, and closed once: no
\* return leaves it open, none closes it a second time.
C14_ClosedOnceAtReturn ==
  /\ (pc = "done" /\ Opened) => fp = "closed"
  /\ fp # "closed_twice"
  /\ (pc \in {"fread", "csv_parse", "final"}) => fp = "open"

\* Witness of C14: a call that opened the file returned on its validation
\* error path.
C14_Witness ==
  /\ pc = "done" /\ fp = "closed" /\ ret = EXIT_FAILURE
  /\ err_status = 1 /\ ~ferr /\ pstatus = 0 /\ kind = "col"

\* C15: free_ili_input leaves year, week and estInc NULL and size 0, and a
\* second call on the same dataset leaves that state and releases no block
\* (none is released twice).
C15_FreeIdempotent ==
  [][ /\ (pc' \in {"freed", "freed_again"})
           => (year' = NULLP /\ week' = NULLP /\ estInc' = NULLP /\ size' = 0)
      /\ (pc = "freed" /\ pc' = "freed_again")
           => /\ UNCHANGED <<year, week, estInc, size>>
              /\ free_ili_input_effect.released = 0 ]_vars

\* Witness of C15: a dataset of two rows was freed, and freed again.
C15_Witness ==
  /\ pc = "freed_again" /\ kind = "ili" /\ ret = EXIT_SUCCESS /\ nrec = 3
  /\ Len(ref) = 2 /\ ~flushed /\ year = NULLP /\ size = 0

\* C16: the error is sticky: with err_status nonzero, a field event or a
\* record event changes neither err_status, nor the captured text, nor
\* curr_row, curr_col, size, capacity, nor any array.
C16_ErrorSticky ==
  [][ (err_status # 0 /\ (FieldEvent \/ RecordEvent))
        => UNCHANGED <<err_status, err_field, curr_row, curr_col, size, vsize,
                       capacity, year, week, estInc, vec>> ]_vars

\* Witness of C16: a conversion error was recorded in the first data record
\* and a whole further record has been delivered since.
C16_Witness ==
  /\ kind = "col" /\ err_status = 1 /\ pc = "csv_parse" /\ nrec = 3
  /\ tok = "ROW_NOT_BEGUN" /\ curr_row = 2 /\ curr_col = 2 /\ vsize = 0

\* The driver reports a callback error: it leaves the chunk loop with the
\* diagnostic written.
Reported ==
  /\ pc = "csv_parse" /\ pc' = "final" /\ pstatus' = 0
  /\ Len(stderr') = Len(stderr) + 1

\* C17: when the converter fails on the field of column c (2 to 4) of the
\* r-th record, err_status becomes the failure kind (1 or 2), the text of
\* the field is captured and curr_col, curr_row and size are not advanced,
\* then or by any later event; at that point and when the driver reports
\* the error curr_row = r, curr_col = c and size = r - 2.  (A field event
\* in which a stray store stops the process has no state after it.)
C17_ConversionErrorFrozen ==
  [][ /\ (FieldEvent /\ kind = "ili" /\ err_status = 0 /\ err_status' # 0
            /\ pc' # "crashed")
           => /\ err_status' \in {1, 2}
              /\ err_field' = <<rec'[Len(rec')]>>
              /\ UNCHANGED <<curr_row, curr_col, size>>
              /\ curr_row = nrec + 1 /\ curr_col = Len(rec')
              /\ curr_col \in 2..FILE_NUM_COLS /\ size = curr_row - 2
      /\ (kind = "ili" /\ err_status \in {1, 2} /\ (FieldEvent \/ RecordEvent))
           => UNCHANGED <<err_status, err_field, curr_row, curr_col, size>>
      /\ (Reported /\ kind = "ili" /\ err_status \in {1, 2})
           => /\ stderr' = Append(stderr,
                     [col |-> curr_col, field |-> err_field, row |-> curr_row,
                      msg |-> cb_err_str(err_status)])
              /\ curr_col \in 2..FILE_NUM_COLS /\ size = curr_row - 2
              /\ UNCHANGED <<curr_row, curr_col, size, err_status>> ]_vars

\* Witness of C17: the value of column 4 of the second data record was out
\* of range, a further record followed, and the driver has reported row 3,
\* column 4 with size 1.
C17_Witness ==
  /\ kind = "ili" /\ pc = "final" /\ err_status = 2 /\ nrec = 3
  /\ err_field = <<T_2p31>> /\ curr_row = 3 /\ curr_col = 4 /\ size = 1
  /\ Len(stderr) = 1 /\ stderr[1].row = 3 /\ stderr[1].col = 4

\* C18: when InsufficientFields is raised for the r-th record (r = nrec + 1
\* at its record event, r = nvalid + 2 afterwards, the records before it
\* being valid), the value of curr_row then, and the one the driver reports,
\* is r.
C18_ShortRecordRowReported ==
  [][ /\ (RecordEvent /\ kind = "ili" /\ err_status = 0 /\ err_status' = 4)
           => curr_row' = nrec + 1
      /\ (Reported /\ kind = "ili" /\ err_status = 4)
           => /\ stderr'[Len(stderr')].row = curr_row
              /\ curr_row = nvalid + 2 ]_vars

\* The array a field event routed to column c of a data row writes into.
TargetArray(c) == IF c = 2 THEN year ELSE IF c = 3 THEN week ELSE estInc

\* C19: every write of the field callback lands inside allocated storage:
\* whenever a field of a data row is due for a data column, while a chunk
\* is fed or in the tokenizer's final flush, the write index size is less
\* than the allocated length of the target array, and no store has landed
\* outside an array or stopped the process.
C19_WritesInBounds ==
  /\ (kind = "ili" /\ pc \in {"csv_parse", "csv_fini"} /\ tok = "FIELD"
        /\ curr_row > 1 /\ err_status = 0 /\ curr_col \in 2..FILE_NUM_COLS)
       => InBounds(TargetArray(curr_col), size)
  /\ (kind = "col" /\ pc \in {"csv_parse", "csv_fini"} /\ tok = "FIELD"
        /\ curr_row > 1 /\ err_status = 0 /\ curr_col = COL_NUM_COLS)
       => InBounds(vec, vsize)
  /\ ~stray /\ pc # "crashed"

\* The reserve of the entry point that runs, and the powers of two.
Reserve == IF kind = "ili" THEN reserve_size_ili ELSE reserve_size_col

RECURSIVE Pow2(_)
Pow2(k) == IF k = 0 THEN 1 ELSE 2 * Pow2(k - 1)

MaxGrowths == 3

\* C20: once set to the reserve, capacity changes only in a record event
\* that commits a data row, only when the incremented size equals the
\* capacity, and then doubles; so while chunks are fed capacity is
\* reserve * 2^k for the smallest k that gives size < capacity (k is the
\* number of growths, each being one doubling).
C20_CapacityDoubles ==
  [][ /\ (pc \in {"fread", "csv_parse", "final", "csv_fini"}
            /\ capacity' # capacity)
           => /\ RecordEvent /\ nrec >= 1
              /\ CurSize' = CurSize + 1 /\ CurSize' = capacity
              /\ capacity' = 2 * capacity
      /\ (pc' \in {"fread", "csv_parse"})
           => \E k \in 0..MaxGrowths :
                /\ capacity' = Reserve' * Pow2(k)
                /\ CurSize' < capacity'
                /\ k > 0 => CurSize' >= Reserve' * Pow2(k - 1) ]_vars

\* Witness of C20: the ILI arrays have grown twice, at the 53rd and at the
\* 106th data row.
C20_Witness ==
  /\ kind = "ili" /\ pc = "csv_parse" /\ capacity = 4 * reserve_size_ili
  /\ size = 2 * reserve_size_ili /\ ~oom /\ Len(year.cells) = capacity

\* The cells of array p at the committed indices (below size) that p holds.
Committed(p) ==
  [i \in 1..(IF size < Len(p.cells) THEN size ELSE Len(p.cells)) |-> p.cells[i]]

\* The cells of array q at the indices of c, NULL or too short an array
\* holding none.
StillHolds(q, c) ==
  /\ Len(q.cells) >= Len(c)
  /\ \A i \in 1..Len(c) : q.cells[i] = c[i]

\* C21: committed rows are immutable: within one ingestion, no step (field
\* event, record event, growth, conversion failure, final shrink-to-fit)
\* changes year[i], week[i] or estInc[i] for an index i below size.
C21_CommittedImmutable ==
  [][ (kind = "ili" /\ pc \in {"fread", "csv_parse", "final", "csv_fini"})
        => /\ StillHolds(year', Committed(year))
           /\ StillHolds(week', Committed(week))
           /\ StillHolds(estInc', Committed(estInc)) ]_vars

\* A chunk ends in failure: csv_parse has returned to the driver with
\* err_status nonzero or with an error of the tokenizer.
ChunkFailed ==
  /\ pc = "csv_parse" /\ pc' \notin {"csv_parse", "crashed"}
  /\ (err_status # 0 \/ pstatus' # 0)

\* After a failed chunk the driver goes straight to the failure return: no
\* chunk is read, the tokenizer's finalize step is not run, nothing more is
\* printed.
StopsAfterFailure ==
  /\ ChunkFailed => pc' = "final"
  /\ (pc = "final" /\ (err_status # 0 \/ pstatus # 0))
       => (pc' = "done" /\ ret' = EXIT_FAILURE /\ stderr' = stderr /\ ~flushed')

C23_CursorLockstep ==
  [][ /\ (pc' \in {"fread", "csv_parse"})
           => /\ curr_row' >= 1 /\ curr_col' >= 1
              /\ CurSize' = (IF curr_row' > 2 THEN curr_row' ELSE 2) - 2
      /\ (RecordEvent /\ err_status = 0) => curr_col' = 1 ]_vars

\* Witness of C23: a data record was committed and the second field of
\* the next one is due.
C23_Witness ==
  /\ kind = "ili" /\ pc = "csv_parse" /\ tok = "FIELD" /\ Len(rec) = 1
  /\ curr_row = 3 /\ curr_col = 2 /\ size = 1 /\ err_status = 0 /\ nrec = 2

\* The call is in progress: it has its buffers and has not returned.
InCall == pc \in {"fopen", "fread", "csv_parse", "final", "csv_fini"}

\* C24: every ingestion of a finite input terminates: a call in progress
\* reaches a return, with success or failure.
C24_ReachesReturn == InCall ~> (pc = "done")

\* The cursor of an ingestion: the state the two pairs of callbacks share.
Cursor == <<curr_row, curr_col, err_status, CurSize>>

\* The text of the field a field event delivers, and what the converter of
\* the ingestor in use makes of it.
FieldText == rec'[Len(rec')]
FieldStatus ==
  IF kind = "ili"
    THEN parse_int_error_check(FieldText, err_status, Len(FieldText), errno).err
    ELSE parse_double_error_check(FieldText, err_status, Len(FieldText), errno).err

\* The machine of cb1/cb2 with the schema width w in place of 4: a field of
\* the header, or met after an error, changes nothing; a field of columns
\* 2 to w takes the status st of its conversion and any other field none;
\* the column advances unless an error was recorded. A record met after an
\* error changes nothing; otherwise fewer than w fields in a data record
\* set InsufficientFields, the column goes back to 1, the row advances and
\* a data record is counted in size.
MachineField(w, st) ==
  IF curr_row = 1 \/ err_status # 0 THEN Cursor
  ELSE LET e == IF curr_col \in 2..w THEN st ELSE 0
       IN <<curr_row, IF e # 0 THEN curr_col ELSE curr_col + 1, e, CurSize>>
MachineRecord(w) ==
  IF err_status # 0 THEN Cursor
  ELSE <<curr_row + 1, 1,
         IF curr_col - 1 < w /\ curr_row > 1 THEN 4 ELSE 0,
         IF curr_row = 1 THEN CurSize ELSE CurSize + 1>>

\* Both ingestors are this machine, the fixed schema with width 4 and the
\* single column with width 2 (a field event that ends the process in a
\* store outside the array has no next cursor).
Width == IF kind = "ili" THEN FILE_NUM_COLS ELSE COL_NUM_COLS
SameMachine ==
  /\ (FieldEvent /\ pc' # "crashed") => Cursor' = MachineField(Width, FieldStatus)
  /\ RecordEvent => Cursor' = MachineRecord(Width)

\* A data record of the single column with fewer than 2 fields, met with no
\* error recorded, sets InsufficientFields.
ShortColumnRecord ==
  (RecordEvent /\ kind = "col" /\ nrec >= 1 /\ err_status = 0
     /\ Len(rec) < COL_NUM_COLS)
    => err_status' = 4

\* Column 2 of a valid data record of the single column is stored at
\* index size of the vector.
Column2Stored ==
  (FieldEvent /\ kind = "col" /\ curr_row > 1 /\ err_status = 0
     /\ curr_col = COL_NUM_COLS /\ IsDoubleText(FieldText))
    => /\ pc' # "crashed"
       /\ InBounds(vec', vsize)
       /\ vec'.cells[vsize + 1] = <<strtod(FieldText).val>>

\* C25: the single-column ingestor is the machine of the fixed-schema one
\* with schema width 2 and one data column: curr_row, curr_col, err_status
\* and size evolve alike on every field and record event, a data record
\* with fewer than 2 fields yields InsufficientFields, and column 2 of each
\* valid data record is stored at index size.
C25_SameMachineWidth2 ==
  [][ SameMachine /\ ShortColumnRecord /\ Column2Stored ]_vars

\* The part of C25 that holds: the cursors evolve alike and a short record
\* sets InsufficientFields.
C25_CursorsAlike == [][ SameMachine /\ ShortColumnRecord ]_vars

=============================================================================
